---- MODULE Spec2Model ----
(***************************************************************************)
(* waterRPA: the task engine (RPAEngine.run_tasks / stop), the image-search *)
(* executors (mouseClick, mouseMove), the cancellable sleep and the part of *)
(* the window (RPAWindow) that starts and stops a run.                      *)
(*                                                                         *)
(* Time is counted in units of 0.05 s.  A statement takes no time; time    *)
(* passes in time.sleep and in the screen search.                          *)
(***************************************************************************)
EXTENDS Integers, Sequences, FiniteSets, TLC

\* ------------------------------------------------------------------------
\* Program constants (units of 0.05 s)
\* ------------------------------------------------------------------------
Tick == 2
Timeout == 1200
RetrySleep == 2
PasteSleep == 10
LoopSleep == 2
\* scale factors are counted in thousandths: 1000 is 1.0
ScaleOne == 1000
ScaleTol == 10

\* ------------------------------------------------------------------------
\* Bounds of the model
\* ------------------------------------------------------------------------
MaxRuns == 2
MaxPasses == 2
\* the two durations a screen search may take (14.9 s and 35 s)
LocateFast == 298
LocateSlow == 700

LocateTimes == {LocateFast, LocateSlow}

Min(a, b) == IF a <= b THEN a ELSE b

\* ------------------------------------------------------------------------
\* Steps: {"type", "value", "retry"} as produced by TaskRow.get_data
\* ------------------------------------------------------------------------
Step(ty, v, re) == [type |-> ty, value |-> v, retry |-> re]

\* image references that contain a path separator, and those that exist
PathLike == {"img/ok.png", "img/gone.png"}
ExistingFiles == {"img/ok.png"}

\* float(cmd_value) of the Wait step: the duration in units, or ValueError
BadNumber == -9999
float(v) ==
    CASE v = "0.15" -> 3
      [] v = "0.1"  -> 2
      [] v = "0"    -> 0
      [] v = "-1"   -> -20
      [] OTHER      -> BadNumber

\* int(cmd_value) of the Scroll step
int(v) ==
    CASE v = "3"  -> 3
      [] v = "1"  -> 1
      [] v = "-1" -> -1
      [] v = "0"  -> 0
      [] OTHER    -> BadNumber

ImageKinds == {1, 2, 3, 8}

StepPool ==
    { Step(1, "ok.png", 1),
      Step(2, "img/ok.png", 3),
      Step(3, "ok.png", -1),
      Step(8, "ok.png", 2),
      Step(8, "img/ok.png", -1),
      Step(1, "img/gone.png", -1),
      Step(8, "img/gone.png", 3),
      Step(1, "confidence.png", 1),
      Step(4, "hello", 1),
      Step(5, "0.15", 1),
      Step(5, "-1", 1),
      Step(5, "0", 1),
      Step(5, "abc", 1),
      Step(6, "3", 1),
      Step(6, "abc", 1),
      Step(7, "cmd+s", 1),
      Step(9, "out", 1),
      Step(0, "x", 1) }

\* the steps a two-step list may begin with
FirstSteps ==
    { Step(5, "0.15", 1), Step(1, "ok.png", 1) }

TaskLists ==
    { <<a>> : a \in StepPool } \cup { <<a, b>> : a \in FirstSteps, b \in StepPool }

\* the machine: platform, the capture/screen scale of lines 364-374 (0 stands
\* for None), and whether OpenCV is installed
Envs ==
    { [macos |-> TRUE,  scale_x |-> 2000, scale_y |-> 2000, opencv |-> TRUE],
      [macos |-> FALSE, scale_x |-> 1000, scale_y |-> 1000, opencv |-> FALSE] }

\* points the screen search may report
Points == { <<15, 7>> }

\* ------------------------------------------------------------------------
\* State
\* ------------------------------------------------------------------------
VARIABLES
    is_running,       \* RPAEngine.is_running
    stop_requested,   \* RPAEngine.stop_requested
    th,               \* per thread: the frame of its run_tasks call
    start_btn,        \* RPAWindow.start_btn is enabled
    stop_btn,         \* RPAWindow.stop_btn is enabled
    finished_signal,  \* a finished_signal is queued for the window
    runs,             \* number of runs started so far
    env,              \* the machine the program runs on
    rows,             \* RPAWindow.rows: the TaskRow widgets of the editor
    file,             \* the configuration file save_config / load_config work on
    call              \* one call of a module-level function: arguments, result

vars == <<is_running, stop_requested, th, start_btn, stop_btn, finished_signal, runs, env,
          rows, file, call>>

NoPoint == <<>>
NoFile == [written |-> FALSE, tasks |-> <<>>]
Written(tasks) == [written |-> TRUE, tasks |-> tasks]
NoCall == [fn |-> "none"]
NoMsg == [step |-> 0, reason |-> "none"]
CountedKinds == {"stopped", "fail", "error", "terminal"}

\* the frame of a thread that is not inside run_tasks
Frame(tasks, loop) ==
    [ pc |-> "idle", tasks |-> tasks, loop_forever |-> loop,
      idx |-> 0, pass |-> 0, warned |-> {}, scale_x |-> 0, scale_y |-> 0,
      \* mouseClick / mouseMove
      reTry |-> 0, attempt |-> 0, elapsed |-> 0,
      attempts |-> 0, searches |-> -1, sleeps |-> 0, clicks |-> 0, moves |-> 0,
      located |-> NoPoint, point |-> NoPoint,
      \* the frontmost application read before and after the click ("" is
      \* None or not read), and the pyautogui.click calls made
      pre_app |-> "", post_app |-> "", clicked |-> <<>>,
      \* the exception the search with confidence= raised in the last attempt
      firstExc |-> "none",
      \* _cancellable_sleep
      ctx |-> "none", seconds |-> 0, remaining |-> 0, slept |-> 0,
      polls |-> 0, slices |-> 0, stopAt |-> -1, flagAtCall |-> FALSE,
      \* what the callback has received
      count |-> [k \in CountedKinds |-> 0], lastMsg |-> "none", failMsg |-> NoMsg,
      warnings |-> 0,
      \* advisories delivered in the earlier runs of this thread
      advised |-> 0,
      exit |-> "none",
      \* stop() has been called since this thread was launched
      stopped |-> FALSE,
      \* stop_requested was still set when line 348 cleared it
      flagAtEnter |-> FALSE ]

IdleFrame == Frame(<<>>, FALSE)

\* callback_msg(...): the kind of the message is recorded
Emit(r, kind) ==
    [r EXCEPT !.lastMsg = kind,
              !.count = IF kind \in CountedKinds
                        THEN [@ EXCEPT ![kind] = @ + 1]
                        ELSE @]

\* a handler that reports the failure and goes on with the next step
StepFailedSkips(r, reason) ==
    [Emit(r, "fail") EXCEPT !.failMsg = [step |-> r.idx + 1, reason |-> reason],
                            !.idx = r.idx + 1, !.pc = "for", !.exit = "step_failed"]

\* except StepFailed (lines 496-499)
StepFailedExit(r, reason) ==
    [Emit(r, "fail") EXCEPT !.failMsg = [step |-> r.idx + 1, reason |-> reason],
                            !.pc = "finally", !.exit = "step_failed"]

\* a stop that is caught by the handler of unexpected exceptions
TaskStoppedAsError(r) ==
    [Emit(r, "error") EXCEPT !.pc = "finally", !.exit = "task_stopped"]

\* except TaskStopped (lines 507-509)
TaskStoppedExit(r) ==
    [Emit(r, "stopped") EXCEPT !.pc = "finally", !.exit = "task_stopped"]

\* an unexpected exception that leaves run_tasks without its cleanup
ErrorPropagates(r) ==
    [Emit(r, "error") EXCEPT !.pc = "returned", !.exit = "error"]

\* a handler that reports the error and goes on with the next step
ErrorContinues(r) ==
    [Emit(r, "error") EXCEPT !.idx = r.idx + 1, !.pc = "for", !.exit = "error"]

\* except Exception (lines 510-512)
ErrorExit(r) ==
    [Emit(r, "error") EXCEPT !.pc = "finally", !.exit = "error"]

\* the step's own message, then the next iteration of the for loop
StepDone(r) ==
    [Emit(r, "effect") EXCEPT !.idx = @ + 1, !.pc = "for"]

\* where a _cancellable_sleep call returns to
Resume(r) ==
    CASE r.ctx = "wait"  -> StepDone(r)
      [] r.ctx = "type"  -> StepDone(r)
      [] r.ctx = "retry" -> [r EXCEPT !.pc = "mc_check",
                                      !.attempt = IF r.reTry = -1 THEN 0 ELSE r.attempt + 1]
      [] r.ctx = "loop"  -> [r EXCEPT !.pc = "for", !.idx = 0,
                                      !.pass = Min(r.pass + 1, MaxPasses)]

\* a sleep that polls the flag before it looks at the duration
SleepPollsFirst(r, seconds, ctx, should_stop) ==
    LET c == [r EXCEPT !.ctx = ctx, !.seconds = seconds, !.remaining = seconds,
                       !.slept = 0, !.polls = 0, !.slices = 0, !.stopAt = -1,
                       !.flagAtCall = should_stop]
    IN  IF should_stop THEN TaskStoppedExit([c EXCEPT !.polls = 1])
        ELSE IF seconds <= 0 THEN Resume(c) ELSE [c EXCEPT !.pc = "sl_check"]

\* _cancellable_sleep(seconds, should_stop), lines 60-65; should_stop is the
\* value the flag has at the call, which these lines do not read
cancellable_sleep(r, seconds, ctx, should_stop) ==
    LET c == [r EXCEPT !.ctx = ctx, !.seconds = seconds, !.remaining = seconds,
                       !.slept = 0, !.polls = 0, !.slices = 0, !.stopAt = -1,
                       !.flagAtCall = should_stop]
    IN  IF seconds <= 0 THEN Resume(c) ELSE [c EXCEPT !.pc = "sl_check"]

\* ------------------------------------------------------------------------
\* Coordinates
\* ------------------------------------------------------------------------
\* a coordinate is a fraction num/den, den > 0
Frac(n, d) == [num |-> n, den |-> d]

Abs(a) == IF a < 0 THEN -a ELSE a

\* _normalize_xy_for_macos_retina (lines 88-95); a scale of 0 is None
normalize_xy_for_macos_retina(x, y, scale_x, scale_y, macos) ==
    IF ~macos THEN <<Frac(x, 1), Frac(y, 1)>>
    ELSE IF scale_x = 0 \/ scale_y = 0 THEN <<Frac(x, 1), Frac(y, 1)>>
    ELSE IF Abs(scale_x - ScaleOne) < ScaleTol /\ Abs(scale_y - ScaleOne) < ScaleTol
         THEN <<Frac(x, 1), Frac(y, 1)>>
    ELSE <<Frac(x * ScaleOne, scale_x), Frac(y * ScaleOne, scale_y)>>

\* int(round(f)) for f >= 0: Python rounds a half to the even neighbour
round(f) ==
    LET q == f.num \div f.den
        m == f.num % f.den
    IN  IF 2 * m < f.den THEN q
        ELSE IF 2 * m > f.den THEN q + 1
        ELSE IF q % 2 = 0 THEN q ELSE q + 1

\* ------------------------------------------------------------------------
\* The screen search
\* ------------------------------------------------------------------------
\* what one pyautogui.locateCenterOnScreen call may do
Found(p) == [kind |-> "point", pt |-> p, exc |-> "none", mentions |-> FALSE]
ReturnsNone == [kind |-> "none", pt |-> NoPoint, exc |-> "none", mentions |-> FALSE]
Raises(e, m) == [kind |-> "raise", pt |-> NoPoint, exc |-> e, mentions |-> m]

\* with confidence=: without OpenCV the parameter is refused, with a message
\* that mentions it; with OpenCV a match, a miss, or any other failure
FirstSearch(opencv) ==
    IF ~opencv THEN { Raises("NotImplementedError", TRUE) }
    ELSE { Found(p) : p \in Points } \cup
         { ReturnsNone,
           Raises("ImageNotFoundException", FALSE),
           Raises("OSError", FALSE) }

\* image names that hold the word confidence or opencv: the message of a
\* failure to read such an image quotes the name, and so holds the word too
MentioningNames == {"confidence.png"}
NamedFailure(opencv, img) ==
    IF opencv /\ img \in MentioningNames THEN { Raises("OSError", TRUE) } ELSE {}

\* without confidence
SecondSearch ==
    { Found(p) : p \in Points } \cup
    { ReturnsNone, Raises("ImageNotFoundException", FALSE), Raises("OSError", FALSE) }

Outcome(kind, pt, exc, warn, searches) ==
    [kind |-> kind, pt |-> pt, exc |-> exc, warn |-> warn, searches |-> searches]

\* a locator that looks for the file only after a search that missed
LocateSearchesFirst(img, first, second) ==
    IF img = "" THEN Outcome("none", NoPoint, "none", FALSE, 0)
    ELSE IF first.kind = "point" THEN Outcome("point", first.pt, "none", FALSE, 1)
    ELSE IF img \in PathLike /\ img \notin ExistingFiles
         THEN Outcome("raise", NoPoint, "StepFailed", FALSE, 1)
    ELSE IF first.kind # "raise"
         THEN Outcome(first.kind, first.pt, "none", FALSE, 1)
    ELSE IF first.mentions
         THEN IF second.kind # "raise"
              THEN Outcome(second.kind, second.pt, "none", TRUE, 2)
              ELSE IF second.exc = "ImageNotFoundException"
                   THEN Outcome("none", NoPoint, "none", TRUE, 2)
                   ELSE Outcome("raise", NoPoint, second.exc, TRUE, 2)
    ELSE Outcome("raise", NoPoint, first.exc, FALSE, 1)

\* _locate_center_on_screen(img, on_warn=...), lines 109-129: what it returns
\* or raises, whether on_warn was called, and how many searches it made
locate_center_on_screen(img, first, second) ==
    IF img = "" THEN Outcome("none", NoPoint, "none", FALSE, 0)
    ELSE IF img \in PathLike /\ img \notin ExistingFiles
         THEN Outcome("raise", NoPoint, "StepFailed", FALSE, 0)
    ELSE IF first.kind # "raise"
         THEN Outcome(first.kind, first.pt, "none", FALSE, 1)
    ELSE IF first.mentions
         THEN IF second.kind # "raise"
              THEN Outcome(second.kind, second.pt, "none", TRUE, 2)
              ELSE IF second.exc = "ImageNotFoundException"
                   THEN Outcome("none", NoPoint, "none", TRUE, 2)
                   ELSE Outcome("raise", NoPoint, second.exc, TRUE, 2)
    ELSE Outcome("raise", NoPoint, first.exc, FALSE, 1)

\* an on_warn that passes every message on
WarnAlways(r, msg) ==
    [Emit(r, "warn") EXCEPT !.warned = @ \cup {msg},
                            !.warnings = @ + 1]

\* warn_once (lines 356-361)
AdvisoryText == "no confidence"
warn_once(r, msg) ==
    IF msg \in r.warned THEN r
    ELSE [Emit(r, "warn") EXCEPT !.warned = @ \cup {msg},
                                 !.warnings = @ + 1]

\* _get_frontmost_app_name (lines 21-39): None (written "") off macOS
FrontApps(macos) == IF macos THEN {"", "Finder", "Safari"} ELSE {""}

\* reTry normalisation (lines 156-162, 270-276)
NormRetry(reTry) == IF reTry = 0 \/ reTry < -1 THEN 1 ELSE reTry

\* ------------------------------------------------------------------------
\* Init
\* ------------------------------------------------------------------------
\* the window has one worker thread at a time
Init ==
    /\ is_running = FALSE
    /\ stop_requested = FALSE
    /\ th = [t \in {1} |-> IdleFrame]
    /\ start_btn = TRUE
    /\ stop_btn = FALSE
    /\ finished_signal = FALSE
    /\ runs = 0
    /\ env \in Envs
    /\ rows = <<>>
    /\ file = NoFile
    /\ call = NoCall

\* RPAEngine.stop (lines 335-337); a thread inside _cancellable_sleep notes
\* how long it had slept when the flag was first raised
stop ==
    /\ stop_requested' = TRUE
    /\ is_running' = FALSE
    /\ th' = [t \in DOMAIN th |->
                IF th[t].pc \in {"idle", "returned"} THEN th[t]
                ELSE [th[t] EXCEPT
                        !.stopped = TRUE,
                        !.stopAt = IF th[t].pc \in {"sl_check", "sl_sleep"}
                                      /\ ~stop_requested /\ th[t].stopAt = -1
                                   THEN th[t].slept ELSE th[t].stopAt]]

\* ------------------------------------------------------------------------
\* The window
\* ------------------------------------------------------------------------
\* RPAWindow.start_task (lines 816-841): reachable only through start_btn
StartTask ==
    /\ start_btn
    /\ runs < MaxRuns
    /\ \E tasks \in TaskLists, loop \in BOOLEAN :
          th' = [th EXCEPT ![1] = [Frame(tasks, loop) EXCEPT !.pc = "launched",
                                                             !.advised = th[1].advised]]
    /\ start_btn' = FALSE
    /\ stop_btn' = TRUE
    /\ runs' = runs + 1
    /\ UNCHANGED <<is_running, stop_requested, finished_signal, env, rows, file, call>>

\* RPAWindow.stop_task (lines 846-848): reachable only through stop_btn
StopTask ==
    /\ stop_btn
    /\ stop
    /\ UNCHANGED <<start_btn, stop_btn, finished_signal, runs, env, rows, file, call>>

\* RPAWindow.on_finished (lines 850-854)
OnFinished ==
    /\ finished_signal
    /\ finished_signal' = FALSE
    /\ start_btn' = TRUE
    /\ stop_btn' = FALSE
    /\ UNCHANGED <<is_running, stop_requested, th, runs, env, rows, file, call>>

\* ------------------------------------------------------------------------
\* run_tasks, one thread
\* ------------------------------------------------------------------------
Local(t, r) ==
    /\ th' = [th EXCEPT ![t] = r]
    /\ UNCHANGED <<is_running, stop_requested, start_btn, stop_btn, finished_signal,
                   runs, env, rows, file, call>>

\* a run that begins without clearing the stop flag
RunTasksEnterKeepsFlag(t) ==
    /\ th[t].pc = "launched"
    /\ is_running' = TRUE
    /\ th' = [th EXCEPT ![t] = [th[t] EXCEPT !.pc = "for", !.idx = 0, !.pass = 1,
                                             !.warned = {},
                                             !.flagAtEnter = stop_requested,
                                             !.scale_x = env.scale_x,
                                             !.scale_y = env.scale_y]]
    /\ UNCHANGED <<stop_requested, start_btn, stop_btn, finished_signal, runs, env,
                   rows, file, call>>

\* lines 347-374: the flags, the warned set, the scale of the display
RunTasksEnter(t) ==
    /\ th[t].pc = "launched"
    /\ is_running' = TRUE
    /\ stop_requested' = FALSE
    /\ th' = [th EXCEPT ![t] = [th[t] EXCEPT !.pc = "for", !.idx = 0, !.pass = 1,
                                             !.warned = {},
                                             !.flagAtEnter = stop_requested,
                                             !.scale_x = env.scale_x,
                                             !.scale_y = env.scale_y]]
    /\ UNCHANGED <<start_btn, stop_btn, finished_signal, runs, env, rows, file, call>>

\* the locals of the step that has ended are gone when the for loop goes on
\* (lines 378, 501)
ClearStep(r) ==
    [r EXCEPT !.reTry = 0, !.attempt = 0, !.elapsed = 0, !.attempts = 0,
              !.searches = -1, !.sleeps = 0, !.clicks = 0, !.moves = 0,
              !.located = NoPoint, !.point = NoPoint,
              !.pre_app = "", !.post_app = "", !.clicked = <<>>,
              !.firstExc = "none"]

\* a loop that begins its next pass without the sleep between passes
ForStepNoLoopSleep(r, stopFlag) ==
    IF r.idx = Len(r.tasks)
    THEN IF ~r.loop_forever
         THEN [ClearStep(r) EXCEPT !.pc = "finally", !.exit = "completed"]
         ELSE [Emit(ClearStep(r), "loopwait") EXCEPT !.pc = "for", !.idx = 0,
                                          !.pass = Min(r.pass + 1, MaxPasses)]
    ELSE IF stopFlag
         THEN [Emit(ClearStep(r), "stopped") EXCEPT !.pc = "finally",
                                                    !.exit = "stop_check"]
         ELSE [Emit(ClearStep(r), "dispatch") EXCEPT !.pc = "exec", !.ctx = "none"]

\* a loop that begins another pass whether or not loop_forever is set
ForStepNeverBreaks(r, stopFlag) ==
    IF r.idx = Len(r.tasks)
    THEN cancellable_sleep(Emit(ClearStep(r), "loopwait"), LoopSleep, "loop", stopFlag)
    ELSE IF stopFlag
         THEN [Emit(ClearStep(r), "stopped") EXCEPT !.pc = "finally",
                                                    !.exit = "stop_check"]
         ELSE [Emit(ClearStep(r), "dispatch") EXCEPT !.pc = "exec", !.ctx = "none"]

\* the head of the for loop with its stop check (lines 378-388), and the end
\* of a pass (lines 501-505)
ForStepResult(r, stopFlag) ==
    IF r.idx = Len(r.tasks)
    THEN IF ~r.loop_forever
         THEN [ClearStep(r) EXCEPT !.pc = "finally", !.exit = "completed"]
         ELSE cancellable_sleep(Emit(ClearStep(r), "loopwait"), LoopSleep, "loop",
                                stopFlag)
    ELSE IF stopFlag
         THEN [Emit(ClearStep(r), "stopped") EXCEPT !.pc = "finally",
                                                    !.exit = "stop_check"]
         ELSE [Emit(ClearStep(r), "dispatch") EXCEPT !.pc = "exec", !.ctx = "none"]

ForStep(t) ==
    /\ th[t].pc = "for"
    /\ Local(t, ForStepResult(th[t], stop_requested))

\* what a call of the input capability (pyperclip.copy, pyautogui.hotkey,
\* scroll, screenshot) may do: return, or raise some exception
InputOutcomes == {"ok", "raise"}

\* the dispatch on cmd_type (lines 390-494); input is what the step's call of
\* the input capability does, for the kinds that make one here
ExecResult(r, stopFlag, input) ==
    LET task == r.tasks[r.idx + 1]
    IN  CASE task.type \in ImageKinds ->
               \* mouseClick / mouseMove up to the first attempt (lines 153-162)
               [r EXCEPT !.pc = "mc_check", !.reTry = NormRetry(task.retry),
                         !.attempt = 0, !.elapsed = 0]
          [] task.type = 4 ->
               IF input = "raise" THEN ErrorExit(r)
               ELSE cancellable_sleep(r, PasteSleep, "type", stopFlag)
          [] task.type = 5 ->
               IF float(task.value) = BadNumber THEN ErrorExit(r)
               ELSE cancellable_sleep(r, float(task.value), "wait", stopFlag)
          [] task.type = 6 ->
               IF int(task.value) = BadNumber \/ input = "raise"
               THEN ErrorExit(r) ELSE StepDone(r)
          [] task.type = 7 -> IF input = "raise" THEN ErrorExit(r) ELSE StepDone(r)
          [] task.type = 9 -> IF input = "raise" THEN ErrorExit(r) ELSE StepDone(r)
          [] OTHER -> StepFailedExit(r, "unknown kind")

Exec(t) ==
    /\ th[t].pc = "exec"
    /\ \E input \in InputOutcomes :
          Local(t, ExecResult(th[t], stop_requested, input))

\* an attempt that does not look at the stop flag
McCheckIgnoresStop(r, stopFlag) ==
    IF Timeout # 0 /\ r.elapsed > Timeout THEN StepFailedExit(r, "timeout")
    ELSE [r EXCEPT !.pc = "mc_locate"]

\* a timeout guard that only the unbounded mode applies
McCheckTimeoutUnboundedOnly(r, stopFlag) ==
    IF stopFlag THEN TaskStoppedExit(r)
    ELSE IF r.reTry = -1 /\ r.elapsed > Timeout THEN StepFailedExit(r, "timeout")
    ELSE [r EXCEPT !.pc = "mc_locate"]

\* the top of one attempt: stop check, then _check_timeout (lines 171-173,
\* 214-216, 284-286, 306-308)
McCheckResult(r, stopFlag) ==
    IF stopFlag THEN TaskStoppedExit(r)
    ELSE IF Timeout # 0 /\ r.elapsed > Timeout THEN StepFailedExit(r, "timeout")
    ELSE [r EXCEPT !.pc = "mc_locate"]

McCheck(t) ==
    /\ th[t].pc = "mc_check"
    /\ Local(t, McCheckResult(th[t], stop_requested))

\* clicks= and button= of the pyautogui.click call of a step kind (lines
\* 391-428)
clickTimes(ty) == IF ty = 2 THEN 2 ELSE 1
lOrR(ty) == IF ty = 3 THEN "right" ELSE "left"

\* pyautogui.click(x, y, clicks=, interval=0.2, duration=0.2, button=)
Click(at, ty) == [at |-> at, clicks |-> clickTimes(ty), button |-> lOrR(ty)]

\* a click step that clicks on every attempt that matches, reTry times
MatchedClicksEachRetry(r, pt, pre_app, post_app) ==
    LET n  == normalize_xy_for_macos_retina(pt[1], pt[2], r.scale_x, r.scale_y, env.macos)
        at == <<round(n[1]), round(n[2])>>
        ty == r.tasks[r.idx + 1].type
        c  == [r EXCEPT !.located = pt, !.point = at,
                        !.moves = IF ty = 8 THEN 1 ELSE 0,
                        !.clicked = IF ty = 8 THEN <<>> ELSE <<Click(at, ty)>>,
                        !.clicks = IF ty = 8 THEN 0 ELSE 1]
    IN  IF ty # 8 /\ r.reTry > 1 /\ r.attempt < r.reTry - 1
        THEN [c EXCEPT !.pc = "mc_check", !.attempt = r.attempt + 1]
        ELSE StepDone(c)

\* a compensation that does not ask whether both names are known
MatchedCompensatesUnknown(r, pt, pre_app, post_app) ==
    LET n  == normalize_xy_for_macos_retina(pt[1], pt[2], r.scale_x, r.scale_y, env.macos)
        at == <<round(n[1]), round(n[2])>>
        ty == r.tasks[r.idx + 1].type
        again == pre_app # post_app
    IN  IF ty = 8
        THEN \* mouseMove: pyautogui.moveTo
             StepDone([r EXCEPT !.located = pt, !.point = at, !.moves = 1])
        ELSE \* mouseClick: the click, and the compensation of a focus change
             StepDone([r EXCEPT !.located = pt, !.point = at,
                                !.pre_app = pre_app, !.post_app = post_app,
                                !.clicked = [i \in 1..(IF again THEN 2 ELSE 1) |->
                                                Click(at, ty)],
                                !.clicks = IF again THEN 2 ELSE 1])

\* a match: normalise, act, compensate a focus change (lines 180-208, 223-249,
\* 293-301, 315-323)
Matched(r, pt, pre_app, post_app) ==
    LET n  == normalize_xy_for_macos_retina(pt[1], pt[2], r.scale_x, r.scale_y, env.macos)
        at == <<round(n[1]), round(n[2])>>
        ty == r.tasks[r.idx + 1].type
        again == pre_app # "" /\ post_app # "" /\ pre_app # post_app
    IN  IF ty = 8
        THEN \* mouseMove: pyautogui.moveTo
             StepDone([r EXCEPT !.located = pt, !.point = at, !.moves = 1])
        ELSE \* mouseClick: the click, and the compensation of a focus change
             StepDone([r EXCEPT !.located = pt, !.point = at,
                                !.pre_app = pre_app, !.post_app = post_app,
                                !.clicked = [i \in 1..(IF again THEN 2 ELSE 1) |->
                                                Click(at, ty)],
                                !.clicks = IF again THEN 2 ELSE 1])

\* a retry loop that also sleeps after its last attempt
MissedSleepsAfterLast(r, stopFlag) ==
    IF r.reTry = -1 \/ r.attempt < r.reTry
    THEN cancellable_sleep([r EXCEPT !.sleeps = @ + 1], RetrySleep, "retry", stopFlag)
    ELSE StepFailedExit(r, "not found")

\* a miss: sleep and try again, or give up (lines 210, 251-254, 303, 325-328)
Missed(r, stopFlag) ==
    IF r.reTry = -1 \/ r.attempt < r.reTry - 1
    THEN cancellable_sleep([r EXCEPT !.sleeps = @ + 1], RetrySleep, "retry", stopFlag)
    ELSE StepFailedExit(r, "not found")

\* the frame once the search of one attempt has returned (lines 98-129)
Searched(r, d, first, o) ==
    LET r1 == [r EXCEPT !.attempts = @ + 1,
                        !.searches = o.searches,
                        !.firstExc = IF o.searches >= 1 /\ first.kind = "raise"
                                     THEN first.exc ELSE "none",
                        !.elapsed = @ + (IF o.searches > 0 THEN d ELSE 0)]
    IN  IF o.warn THEN warn_once(r1, AdvisoryText) ELSE r1

\* what the step does with the outcome o of its search (lines 184-215, 297-313)
Acted(r, o, pre_app, post_app, stopFlag) ==
    CASE o.kind = "point" -> Matched(r, o.pt, pre_app, post_app)
      [] o.kind = "none" -> Missed(r, stopFlag)
      [] o.kind = "raise" /\ o.exc = "ImageNotFoundException" -> Missed(r, stopFlag)
      [] o.kind = "raise" /\ o.exc = "StepFailed" -> StepFailedExit(r, "missing file")
      [] OTHER -> ErrorExit(r)

\* one attempt (lines 175-254, 288-328); the search takes d
AttemptResult(r, d, first, second, pre_app, post_app, stopFlag) ==
    LET o == locate_center_on_screen(r.tasks[r.idx + 1].value, first, second)
    IN  CHOOSE n \in { Acted(v, o, pre_app, post_app, stopFlag) :
                          v \in { Searched(r, d, first, o) } } : TRUE

\* the frontmost application is read only around a click (lines 187, 196)
AppsRead(ty, first, second) ==
    IF ty # 8 /\ (first.kind = "point" \/ second.kind = "point")
    THEN FrontApps(env.macos) ELSE {""}

\* before the click: the names are interchangeable, so a known name is Finder
AppsBefore(ty, first, second) == AppsRead(ty, first, second) \ {"Safari"}

McLocate(t) ==
    /\ th[t].pc = "mc_locate"
    /\ \E d \in LocateTimes,
          first \in FirstSearch(env.opencv)
                      \cup NamedFailure(env.opencv, th[t].tasks[th[t].idx + 1].value) :
       \E second \in (IF first.mentions THEN SecondSearch ELSE {ReturnsNone}) :
       \E pre_app \in AppsBefore(th[t].tasks[th[t].idx + 1].type, first, second),
          post_app \in AppsRead(th[t].tasks[th[t].idx + 1].type, first, second) :
          Local(t, AttemptResult(th[t], d, first, second, pre_app, post_app,
                                 stop_requested))

\* a sleep whose loop looks at the deadline only
SleepCheckIgnoresStop(r, stopFlag) ==
    LET p == [r EXCEPT !.polls = r.polls + 1]
    IN  IF p.remaining <= 0 THEN Resume(p) ELSE [p EXCEPT !.pc = "sl_sleep"]

\* _cancellable_sleep, the head of its loop (lines 67-72)
SleepCheckResult(r, stopFlag) ==
    LET p == [r EXCEPT !.polls = r.polls + 1]
    IN  IF stopFlag THEN TaskStoppedExit(p)
        ELSE IF p.remaining <= 0 THEN Resume(p)
        ELSE [p EXCEPT !.pc = "sl_sleep"]

SleepCheck(t) ==
    /\ th[t].pc = "sl_check"
    /\ Local(t, SleepCheckResult(th[t], stop_requested))

\* a slice that is always a whole tick
SliceWholeTick(r) == Tick

\* time.sleep(min(tick, remaining)) (line 74)
Slice(r) == Min(Tick, r.remaining)

SleepSliceResult(r) ==
    [r EXCEPT !.pc = "sl_check",
              !.remaining = r.remaining - Slice(r),
              !.slept = r.slept + Slice(r),
              !.slices = r.slices + 1,
              !.elapsed = IF r.ctx = "retry" THEN r.elapsed + Slice(r) ELSE r.elapsed]

SleepSlice(t) ==
    /\ th[t].pc = "sl_sleep"
    /\ Local(t, SleepSliceResult(th[t]))

\* finally (lines 513-515)
FinallyResult(r) == [Emit(r, "terminal") EXCEPT !.pc = "returned"]

Finally(t) ==
    /\ th[t].pc = "finally"
    /\ is_running' = FALSE
    /\ th' = [th EXCEPT ![t] = FinallyResult(th[t])]
    /\ UNCHANGED <<stop_requested, start_btn, stop_btn, finished_signal, runs, env, rows, file, call>>

\* WorkerThread.run after run_tasks returned (line 548)
WorkerFinish(t) ==
    /\ th[t].pc = "returned"
    /\ t = 1
    /\ finished_signal' = TRUE
    /\ th' = [th EXCEPT ![t] = [IdleFrame EXCEPT
                                    !.advised = th[t].advised + th[t].warnings]]
    /\ UNCHANGED <<is_running, stop_requested, start_btn, stop_btn, runs, env, rows, file, call>>

Worker(t) ==
    \/ RunTasksEnter(t)
    \/ ForStep(t)
    \/ Exec(t)
    \/ McCheck(t)
    \/ McLocate(t)
    \/ SleepCheck(t)
    \/ SleepSlice(t)
    \/ Finally(t)

\* ------------------------------------------------------------------------
\* The program: the window and its worker thread
\* ------------------------------------------------------------------------
Next ==
    \/ StartTask
    \/ StopTask
    \/ OnFinished
    \/ \E t \in DOMAIN th : Worker(t)
    \/ \E t \in DOMAIN th : WorkerFinish(t)

Spec == Init /\ [][Next]_vars

\* ------------------------------------------------------------------------
\* The engine alone, driven by callers that hold no button: any thread may
\* call run_tasks or stop at any time
\* ------------------------------------------------------------------------
EngineLists ==
    { <<Step(5, "0.1", 1)>>, <<Step(1, "ok.png", 1)>> }

CallRunTasks(t) ==
    /\ th[t].pc = "idle"
    /\ runs < MaxRuns
    /\ \E tasks \in EngineLists :
          th' = [th EXCEPT ![t] = [Frame(tasks, FALSE) EXCEPT !.pc = "launched",
                                                              !.advised = th[t].advised]]
    /\ runs' = runs + 1
    /\ UNCHANGED <<is_running, stop_requested, start_btn, stop_btn, finished_signal, env, rows, file, call>>

CallStop ==
    /\ stop
    /\ UNCHANGED <<start_btn, stop_btn, finished_signal, runs, env, rows, file, call>>

\* run_tasks returns to its caller
Return(t) ==
    /\ th[t].pc = "returned"
    /\ th' = [th EXCEPT ![t] = [IdleFrame EXCEPT
                                    !.advised = th[t].advised + th[t].warnings]]
    /\ UNCHANGED <<is_running, stop_requested, start_btn, stop_btn, finished_signal,
                   runs, env, rows, file, call>>

NextEngine ==
    \/ \E t \in DOMAIN th : CallRunTasks(t)
    \/ CallStop
    \/ \E t \in DOMAIN th : Worker(t)
    \/ \E t \in DOMAIN th : Return(t)

\* two threads hold the engine
InitEngine ==
    /\ is_running = FALSE
    /\ stop_requested = FALSE
    /\ th = [t \in {1, 2} |-> IdleFrame]
    /\ start_btn = FALSE
    /\ stop_btn = FALSE
    /\ finished_signal = FALSE
    /\ runs = 0
    /\ env \in Envs
    /\ rows = <<>>
    /\ file = NoFile
    /\ call = NoCall

SpecEngine == InitEngine /\ [][NextEngine]_vars

\* ------------------------------------------------------------------------
\* One run of the window, with its worker thread scheduled: a thread that can
\* take a step eventually takes it
\* ------------------------------------------------------------------------
FirstRun == StartTask /\ runs = 0

NextOnce ==
    \/ FirstRun
    \/ StopTask
    \/ OnFinished
    \/ \E t \in DOMAIN th : Worker(t)
    \/ \E t \in DOMAIN th : WorkerFinish(t)

FairSpec ==
    /\ Init
    /\ [][NextOnce]_vars
    /\ WF_vars(Worker(1))
    /\ WF_vars(WorkerFinish(1))

\* ------------------------------------------------------------------------
\* _normalize_xy_for_macos_retina called on its own, with any arguments
\* ------------------------------------------------------------------------
CoordXs == {0, 15, 101}
CoordYs == {7, 40}
\* scale arguments in thousandths; 0 stands for None
ScaleArgs == {0, 989, 990, 995, 1000, 1005, 1010, 1011, 2000}

NormalizeCalls ==
    [fn : {"normalize"}, x : CoordXs, y : CoordYs,
     scale_x : ScaleArgs, scale_y : ScaleArgs, done : {FALSE}, out : {NoPoint}]

InitNormalize ==
    /\ is_running = FALSE
    /\ stop_requested = FALSE
    /\ th = [t \in {1} |-> IdleFrame]
    /\ start_btn = TRUE
    /\ stop_btn = FALSE
    /\ finished_signal = FALSE
    /\ runs = 0
    /\ env \in Envs
    /\ rows = <<>>
    /\ file = NoFile
    /\ call \in NormalizeCalls

\* the call returns (lines 88-95); _is_macos reads the platform
Normalize ==
    /\ call.fn = "normalize"
    /\ ~call.done
    /\ call' = [call EXCEPT !.done = TRUE,
                            !.out = normalize_xy_for_macos_retina(
                                        call.x, call.y, call.scale_x, call.scale_y,
                                        env.macos)]
    /\ UNCHANGED <<is_running, stop_requested, th, start_btn, stop_btn, finished_signal,
                   runs, env, rows, file>>

NextNormalize == Normalize

SpecNormalize == InitNormalize /\ [][NextNormalize]_vars

\* ------------------------------------------------------------------------
\* The editor of the window: its rows, and the configuration file
\* ------------------------------------------------------------------------
MaxRows == 2
EditorKinds == {1, 4, 5}
ValueTexts == {"", "2"}
RetryTexts == {"1", "3", "x"}

\* str(retry) of an int
str(n) ==
    CASE n = 1  -> "1"
      [] n = 3  -> "3"
      [] n = -1 -> "-1"
      [] n = 0  -> "0"

\* the widgets of one TaskRow
Row(ty, v, re, vis) ==
    [type_combo |-> ty, value_input |-> v, retry_input |-> re, retry_visible |-> vis]

\* TaskRow.__init__ (lines 553-592): the first kind, an empty value, retry "1"
NewRow == Row(1, "", "1", TRUE)

\* the combo box shows kind ty: on_type_changed (lines 594-628) shows the
\* retry field for the image kinds and hides it for the others
on_type_changed(row, ty) ==
    [row EXCEPT !.type_combo = ty, !.retry_visible = ty \in ImageKinds]

\* TaskRow.set_data (lines 630-644); setCurrentText signals a change only
\* when the text differs; the value of a record is a string, str keeps it
set_data(row, data) ==
    LET typed == IF data.type \in 1..9 /\ data.type # row.type_combo
                 THEN on_type_changed(row, data.type)
                 ELSE row
    IN  [typed EXCEPT !.value_input = data.value, !.retry_input = str(data.retry)]

\* TaskRow.get_data (lines 661-683)
get_data(row) ==
    LET value == IF row.type_combo \in {5, 6} /\ row.value_input = ""
                 THEN "0" ELSE row.value_input
        retry == IF row.retry_visible /\ row.retry_input # ""
                    /\ int(row.retry_input) # BadNumber
                 THEN int(row.retry_input) ELSE 1
    IN  Step(row.type_combo, value, retry)

\* the step list the rows hold (lines 771-775)
RowsData(rs) == [i \in 1..Len(rs) |-> get_data(rs[i])]

\* well-formed step lists a configuration file may hold
FileRecords == { Step(ty, v, re) : ty \in EditorKinds, v \in ValueTexts, re \in {1, 3} }
Files == { Written(<<a>>) : a \in FileRecords }

Editor(rs, f) ==
    /\ rows' = rs
    /\ file' = f
    /\ UNCHANGED <<is_running, stop_requested, th, start_btn, stop_btn, finished_signal,
                   runs, env, call>>

\* RPAWindow.__init__ adds one row (line 751); the file is any the user has
InitEditor ==
    /\ is_running = FALSE
    /\ stop_requested = FALSE
    /\ th = [t \in {1} |-> IdleFrame]
    /\ start_btn = TRUE
    /\ stop_btn = FALSE
    /\ finished_signal = FALSE
    /\ runs = 0
    /\ env \in { e \in Envs : e.macos }
    /\ rows = <<NewRow>>
    /\ file \in {NoFile} \cup Files
    /\ call = NoCall

\* add_row() (lines 753-763)
AddRow ==
    /\ Len(rows) < MaxRows
    /\ Editor(Append(rows, NewRow), file)

\* delete_row (lines 765-768)
DeleteRow ==
    \E i \in DOMAIN rows :
        Editor([j \in 1..(Len(rows) - 1) |-> IF j < i THEN rows[j] ELSE rows[j + 1]], file)

\* the user picks a kind in the combo box of a row
ChooseType ==
    \E i \in DOMAIN rows, ty \in EditorKinds :
        /\ ty # rows[i].type_combo
        /\ Editor([rows EXCEPT ![i] = on_type_changed(@, ty)], file)

\* the user types into the value field of a row
EditValue ==
    \E i \in DOMAIN rows, v \in ValueTexts :
        /\ v # rows[i].value_input
        /\ Editor([rows EXCEPT ![i].value_input = v], file)

\* the user types into the retry field of a row, which is there to type into
EditRetry ==
    \E i \in DOMAIN rows, re \in RetryTexts :
        /\ rows[i].retry_visible
        /\ re # rows[i].retry_input
        /\ Editor([rows EXCEPT ![i].retry_input = re], file)

\* save_config (lines 770-788), the file written
SaveConfig ==
    /\ rows # <<>>
    /\ Editor(rows, Written(RowsData(rows)))

\* load_config (lines 790-814), the file read: the rows are replaced by one
\* new row per record, filled by set_data (line 759)
LoadConfig ==
    /\ file.written
    /\ Editor([i \in 1..Len(file.tasks) |-> set_data(NewRow, file.tasks[i])], file)

NextEditor ==
    \/ AddRow
    \/ DeleteRow
    \/ ChooseType
    \/ EditValue
    \/ EditRetry
    \/ SaveConfig
    \/ LoadConfig

SpecEditor == InitEditor /\ [][NextEditor]_vars

\* ------------------------------------------------------------------------
\* The file name of the screenshot step (lines 479-492), for any value
\* ------------------------------------------------------------------------
\* a text is the sequence of its pieces; the letters of an extension and the
\* path separator are pieces of their own
Png == <<".", "p", "n", "g">>
Jpg == <<".", "j", "p", "g">>
Bmp == <<".", "b", "m", "p">>
Accepted == {Png, Jpg, Bmp}

\* str.endswith with a tuple of suffixes
endswith(s, suffixes) ==
    \E e \in suffixes :
        /\ Len(s) >= Len(e)
        /\ SubSeq(s, Len(s) - Len(e) + 1, Len(s)) = e

\* os.path.join of a directory and a file name
join(a, b) ==
    IF a = <<>> THEN b
    ELSE IF a[Len(a)] = "/" THEN a \o b
    ELSE a \o <<"/">> \o b

\* time.strftime("%Y%m%d_%H%M%S")
Timestamps == {"20240229_235959", "20260102_030405"}

\* a file name that looks at the extension before it looks for a directory
ScreenshotExtensionFirst(path, isdir, timestamp) ==
    IF endswith(path, Accepted) THEN path
    ELSE IF isdir THEN join(path, <<"screenshot_", timestamp>> \o Png)
    ELSE path \o Png

\* lines 480-489: the file the screenshot is written to
screenshot_filename(path, isdir, timestamp) ==
    IF isdir
    THEN join(path, <<"screenshot_", timestamp>> \o Png)
    ELSE IF ~endswith(path, Accepted) THEN path \o Png
    ELSE path

\* values of the step
ScreenshotPaths ==
    { <<>>, <<"o", "u", "t">>, <<"o", "u", "t">> \o Png, <<"a">> \o Jpg, <<"a">> \o Bmp,
      <<"a", ".", "P", "N", "G">>, <<"a", ".", "j", "p", "e", "g">>, Png,
      <<"p", "n", "g">>, <<"a", ".", "p", "n", "g", ".">>,
      <<"s", "h", "o", "t", "s">>, <<"s", "h", "o", "t", "s", "/">>,
      <<"s", "h", "o", "t", "s">> \o Png, <<"d", "/", "o", "u", "t">> }

\* os.path.isdir: the empty path names no directory, any other may
IsDir(path) == IF path = <<>> THEN {FALSE} ELSE BOOLEAN

ScreenshotCalls ==
    { [fn |-> "screenshot", path |-> p, isdir |-> d, timestamp |-> ts,
       done |-> FALSE, out |-> <<>>] :
        p \in ScreenshotPaths, d \in BOOLEAN, ts \in Timestamps }

InitScreenshot ==
    /\ is_running = FALSE
    /\ stop_requested = FALSE
    /\ th = [t \in {1} |-> IdleFrame]
    /\ start_btn = TRUE
    /\ stop_btn = FALSE
    /\ finished_signal = FALSE
    /\ runs = 0
    /\ env \in Envs
    /\ rows = <<>>
    /\ file = NoFile
    /\ call \in { c \in ScreenshotCalls : c.isdir \in IsDir(c.path) }

\* the step computes the name and hands it to pyautogui.screenshot (line 491)
Screenshot ==
    /\ call.fn = "screenshot"
    /\ ~call.done
    /\ call' = [call EXCEPT !.done = TRUE,
                            !.out = screenshot_filename(call.path, call.isdir,
                                                        call.timestamp)]
    /\ UNCHANGED <<is_running, stop_requested, th, start_btn, stop_btn, finished_signal,
                   runs, env, rows, file>>

NextScreenshot == Screenshot

SpecScreenshot == InitScreenshot /\ [][NextScreenshot]_vars

\* ------------------------------------------------------------------------
\* The head of mouseClick and of mouseMove (lines 153-162, 269-276), for any
\* reTry argument
\* ------------------------------------------------------------------------
\* a Python value: an int, a bool, a float in thousandths, nan, a str, None
IntV(n)   == [ty |-> "int",   n |-> n, s |-> ""]
BoolV(n)  == [ty |-> "bool",  n |-> n, s |-> ""]
FloatV(m) == [ty |-> "float", n |-> m, s |-> ""]
NanV      == [ty |-> "float", n |-> 0, s |-> "nan"]
StrV(s)   == [ty |-> "str",   n |-> 0, s |-> s]
NoneV     == [ty |-> "None",  n |-> 0, s |-> ""]

\* int(s) of a str: blanks around the digits are skipped, a sign is read
IntTexts ==
    { <<"3", 3>>, <<"-1", -1>>, <<" 2 ", 2>>, <<"0", 0>>, <<"-5", -5>>, <<"+4", 4>>,
      <<"1", 1>> }
OtherTexts == {"", "x", "1.5", "-1.5", "1e3"}

\* int(v): the integer, or BadNumber where int raises; a float is cut
\* towards zero
int_of(v) ==
    CASE v.ty \in {"int", "bool"} -> v.n
      [] v.ty = "float" /\ v.s = "nan" -> BadNumber
      [] v.ty = "float" /\ v.n >= 0 -> v.n \div ScaleOne
      [] v.ty = "float" /\ v.n < 0 -> -((-v.n) \div ScaleOne)
      [] v.ty = "str" /\ (\E p \in IntTexts : p[1] = v.s) ->
             (CHOOSE p \in IntTexts : p[1] = v.s)[2]
      [] OTHER -> BadNumber

\* lines 156-162, 270-276: try int(reTry), except: 1; then 0 and < -1 give 1
normalize_reTry(v) ==
    LET c == IF int_of(v) = BadNumber THEN 1 ELSE int_of(v)
    IN  NormRetry(c)

RetryValues ==
    { IntV(n) : n \in -3..4 } \cup { BoolV(n) : n \in {0, 1} } \cup
    { FloatV(m) : m \in {-2500, -2000, -1500, -1001, -1000, -500, 0, 500, 1000,
                         1999, 3000} } \cup
    { NanV, NoneV } \cup { StrV(p[1]) : p \in IntTexts } \cup
    { StrV(x) : x \in OtherTexts }

RetryCalls ==
    [fn : {"mouseClick", "mouseMove"}, reTry : RetryValues, done : {FALSE}, out : {0}]

InitRetry ==
    /\ is_running = FALSE
    /\ stop_requested = FALSE
    /\ th = [t \in {1} |-> IdleFrame]
    /\ start_btn = TRUE
    /\ stop_btn = FALSE
    /\ finished_signal = FALSE
    /\ runs = 0
    /\ env \in Envs
    /\ rows = <<>>
    /\ file = NoFile
    /\ call \in RetryCalls

Returned(c) ==
    /\ call' = c
    /\ UNCHANGED <<is_running, stop_requested, th, start_btn, stop_btn, finished_signal,
                   runs, env, rows, file>>

\* mouseClick, lines 155-162
ClickRetry ==
    /\ call.fn = "mouseClick"
    /\ ~call.done
    /\ Returned([call EXCEPT !.done = TRUE, !.out = normalize_reTry(call.reTry)])

\* mouseMove, lines 270-276
MoveRetry ==
    /\ call.fn = "mouseMove"
    /\ ~call.done
    /\ Returned([call EXCEPT !.done = TRUE, !.out = normalize_reTry(call.reTry)])

NextRetry ==
    \/ ClickRetry
    \/ MoveRetry

SpecRetry == InitRetry /\ [][NextRetry]_vars


\* ------------------------------------------------------------------------
\* Properties
\* ------------------------------------------------------------------------
InLoop == {"for", "exec", "mc_check", "mc_locate", "sl_check", "sl_sleep"}
FailReasons == {"not found", "timeout", "missing file", "unknown kind"}

\* C1: once a step has raised StepFailed the run is over: the failure message
\* names that step (index + 1) and a reason and is the last message before the
\* terminal one, no later step is dispatched and no further pass begins, with
\* or without loop_forever.
C1_FailFast ==
    \A t \in DOMAIN th :
        th[t].exit = "step_failed" =>
            /\ th[t].pc \in {"finally", "returned"}
            /\ th[t].failMsg.step = th[t].idx + 1
            /\ th[t].failMsg.reason \in FailReasons
            /\ th[t].count["fail"] = 1
            /\ th[t].pc = "finally" =>
                  th[t].lastMsg = "fail" /\ th[t].count["terminal"] = 0
            /\ th[t].pc = "returned" =>
                  th[t].lastMsg = "terminal" /\ th[t].count["terminal"] = 1

\* the first of two steps failed in a looping run, and the run has ended
C1_Witness ==
    \E t \in DOMAIN th :
        /\ th[t].exit = "step_failed"
        /\ th[t].pc = "returned"
        /\ th[t].loop_forever
        /\ Len(th[t].tasks) = 2
        /\ th[t].idx = 0

\* C2: in a looping run, a stop() made at any moment after the worker was
\* launched ends the run: no pass begins after the stop, and the run reaches
\* its end, with the stopped message unless a step failed.
C2_StopEndsRun ==
    /\ [][\A t \in DOMAIN th :
            (th[t].stopped /\ th[t].loop_forever /\ th[t].pc = "for")
                => ~(th'[t].pc = "exec" /\ th'[t].idx = 0)]_vars
    /\ (th[1].stopped /\ th[1].loop_forever)
          ~> (/\ th[1].pc = "returned"
              /\ th[1].exit \in {"stop_check", "task_stopped", "step_failed", "error"})

\* C3: a run_tasks call that begins while is_running is true returns without
\* executing a step, and at most one thread is inside the run loop.
C3_StartRejectedWhileRunning ==
    /\ [](Cardinality({t \in DOMAIN th : th[t].pc \in InLoop}) <= 1)
    /\ [][\A t \in DOMAIN th :
            (th[t].pc = "launched" /\ is_running /\ th'[t].pc # "launched")
                => th'[t].pc = "returned"]_vars

\* C4: whichever way run_tasks is left, when it returns is_running is false and
\* the terminal message has been delivered exactly once, as the last message;
\* it is not delivered before.
ExitPaths == {"completed", "stop_check", "task_stopped", "step_failed", "error"}

C4_CleanupOnEveryExit ==
    \A t \in DOMAIN th :
        /\ th[t].pc = "returned" =>
              /\ ~is_running
              /\ th[t].count["terminal"] = 1
              /\ th[t].lastMsg = "terminal"
              /\ th[t].exit \in ExitPaths
        /\ th[t].pc # "returned" => th[t].count["terminal"] = 0
        /\ th[t].pc = "finally" => th[t].exit \in ExitPaths

\* run_tasks returned after an exception that is neither StepFailed nor
\* TaskStopped
C4_Witness ==
    \E t \in DOMAIN th : th[t].pc = "returned" /\ th[t].exit = "error"


\* ------------------------------------------------------------------------
InSleep == {"sl_check", "sl_sleep"}
InSearch(t) ==
    \/ th[t].pc \in {"mc_check", "mc_locate"}
    \/ th[t].pc \in InSleep /\ th[t].ctx = "retry"
IsImageStep(r) == r.idx < Len(r.tasks) /\ r.tasks[r.idx + 1].type \in ImageKinds

\* C5: an image search always ends: a thread inside mouseClick / mouseMove
\* leaves it; no attempt begins once the time since the step began exceeds the
\* cap, the check before an attempt then fails the step with the timeout
\* reason whatever the retry mode and the attempts left, and an unbounded
\* search that fails fails by timeout (or at once on a missing file).
C5_SearchEnds ==
    /\ InSearch(1) ~> ~InSearch(1)
    /\ [](\A t \in DOMAIN th :
            /\ th[t].pc = "mc_locate" => th[t].elapsed <= Timeout
            /\ th[t].failMsg.reason = "timeout" => th[t].elapsed > Timeout
            /\ (th[t].exit = "step_failed" /\ IsImageStep(th[t]) /\ th[t].reTry = -1)
                  => th[t].failMsg.reason \in {"timeout", "missing file"})
    /\ [][\A t \in DOMAIN th :
            (/\ th[t].pc = "mc_check" /\ th[t].elapsed > Timeout
             /\ ~stop_requested /\ th'[t].pc # "mc_check")
                => (th'[t].exit = "step_failed" /\ th'[t].failMsg.reason = "timeout")]_vars

\* an unbounded search has ended by timeout after several misses
C5_Witness ==
    \E t \in DOMAIN th :
        /\ th[t].exit = "step_failed"
        /\ th[t].failMsg.reason = "timeout"
        /\ th[t].reTry = -1
        /\ th[t].attempts >= 2

\* at is within one half of x / (sc / 1000)
NearQuotient(at, x, sc) == 2 * Abs(at * sc - x * ScaleOne) <= sc

\* C6: with retry N >= 1, attempts and inter-attempt sleeps go in step: before
\* attempt k+1 there have been k attempts and k sleeps of 100 ms; a match on
\* attempt k <= N leaves k attempts, k-1 sleeps and the action at the
\* normalised matched point; N misses leave N attempts, N-1 sleeps and
\* StepFailed.
C6_RetryCounts ==
    \A t \in DOMAIN th :
        LET r == th[t] IN
        r.reTry >= 1 =>
            /\ r.pc \in {"mc_check", "mc_locate"} =>
                  r.attempts = r.attempt /\ r.sleeps = r.attempt /\ r.attempt < r.reTry
            /\ (r.pc \in InSleep /\ r.ctx = "retry") =>
                  /\ r.seconds = 2
                  /\ r.sleeps = r.attempts
                  /\ r.attempts < r.reTry
            /\ r.point # NoPoint =>
                  /\ r.attempts >= 1 /\ r.attempts <= r.reTry
                  /\ r.sleeps = r.attempts - 1
                  /\ r.clicks + r.moves >= 1
                  /\ IF env.macos /\ env.scale_x = 2000 /\ env.scale_y = 2000
                     THEN /\ NearQuotient(r.point[1], r.located[1], 2000)
                          /\ NearQuotient(r.point[2], r.located[2], 2000)
                     ELSE ~env.macos => r.point = r.located
            /\ (r.exit = "step_failed" /\ r.failMsg.reason = "not found") =>
                  r.attempts = r.reTry /\ r.sleeps = r.reTry - 1

\* retry 3 matched on the third attempt, on a display with scale 2.0
C6_Witness ==
    \E t \in DOMAIN th :
        /\ th[t].reTry = 3
        /\ th[t].attempts = 3
        /\ th[t].sleeps = 2
        /\ th[t].point # NoPoint
        /\ th[t].clicks >= 1
        /\ env.macos

\* C7: no screen search and no sleep slice of a search begins except right
\* after a stop check that found the flag clear; a check that finds it set
\* raises TaskStopped with no further search and no input action, and the
\* whole run ends as stopped.
C7_StopCheckedBeforeAttempt ==
    /\ [][\A t \in DOMAIN th :
            LET r == th[t]
                n == th'[t]
            IN  /\ ((r.pc = "mc_check" \/ (r.pc = "sl_check" /\ r.ctx = "retry"))
                     /\ stop_requested /\ n.pc # r.pc)
                      => /\ n.pc = "finally" /\ n.exit = "task_stopped"
                         /\ n.attempts = r.attempts /\ n.slices = r.slices
                         /\ n.clicks = 0 /\ n.moves = 0
                /\ (n.pc = "mc_locate" /\ r.pc # "mc_locate")
                      => r.pc = "mc_check" /\ ~stop_requested
                /\ n.attempts > r.attempts => r.pc = "mc_locate"
                /\ (n.pc = "sl_sleep" /\ r.pc # "sl_sleep")
                      => r.pc = "sl_check" /\ ~stop_requested]_vars
    /\ [](\A t \in DOMAIN th :
            th[t].exit = "task_stopped" =>
                /\ th[t].pc \in {"finally", "returned"}
                /\ th[t].count["stopped"] = 1
                /\ IsImageStep(th[t]) => th[t].clicks = 0 /\ th[t].moves = 0)

\* the stop arrived between the dispatch of an image step and its first
\* attempt: the step was stopped before any search
C7_Witness ==
    \E t \in DOMAIN th :
        /\ th[t].exit = "task_stopped"
        /\ IsImageStep(th[t])
        /\ th[t].reTry # 0
        /\ th[t].attempts = 0

\* C8: a run that ends by cancellation reports "stopped" exactly once and no
\* step failure and no error; "stopped" is never reported twice, and only for
\* a cancellation.
C8_StopIsNotAnError ==
    \A t \in DOMAIN th :
        LET r == th[t] IN
        /\ r.exit \in {"stop_check", "task_stopped"} =>
              /\ r.count["stopped"] = 1
              /\ r.count["fail"] = 0
              /\ r.count["error"] = 0
              /\ r.failMsg = NoMsg
              /\ r.pc \in {"finally", "returned"}
        /\ r.count["stopped"] > 0 =>
              r.count["stopped"] = 1 /\ r.exit \in {"stop_check", "task_stopped"}

\* TaskStopped was raised in the sleep between two passes
C8_Witness ==
    \E t \in DOMAIN th :
        th[t].exit = "task_stopped" /\ th[t].ctx = "loop" /\ th[t].pc = "returned"

\* C9 as stated: a stop at t < d during the sleep is answered within one tick
\* and before d.
C9_StopBeforeDeadline ==
    \A t \in DOMAIN th :
        LET r == th[t] IN
        (r.exit = "task_stopped" /\ r.stopAt >= 0 /\ r.stopAt < r.seconds) =>
            /\ r.slept - r.stopAt <= Tick
            /\ r.slept < r.seconds

\* C9 as amended: a stop at t < d during the sleep makes the call raise
\* TaskStopped, never return, no later than one tick after t and no later than
\* d (before d when t + tick < d, at d itself when t falls in the last slice);
\* the slices are whole ticks but for the last, which ends at the deadline.
C9_StopWithinTick ==
    \A t \in DOMAIN th :
        LET r == th[t] IN
        /\ (r.ctx # "none" /\ r.seconds > 0) =>
              /\ r.remaining >= 0
              /\ r.slept + r.remaining = r.seconds
              /\ r.slept = Min(r.slices * Tick, r.seconds)
        /\ r.stopAt >= 0 =>
              /\ r.stopAt < r.seconds \/ r.remaining = 0
              /\ r.pc \in InSleep \/ r.exit = "task_stopped"
              /\ r.slept - r.stopAt <= Tick
              /\ r.slept <= r.seconds
              /\ (r.stopAt + Tick < r.seconds) => r.slept < r.seconds

\* a stop during the last, shortened slice of a 0.15 s wait was answered at
\* the deadline
C9_Witness ==
    \E t \in DOMAIN th :
        /\ th[t].exit = "task_stopped"
        /\ th[t].seconds = 3
        /\ th[t].stopAt = 2
        /\ th[t].slept = 3

\* C10: a sleep of d <= 0 returns at once: no poll of the flag, no slice, no
\* TaskStopped, also when the flag was set at the call.
C10_NonPositiveSleepReturns ==
    \A t \in DOMAIN th :
        LET r == th[t] IN
        (r.ctx = "wait" /\ r.seconds <= 0) =>
            /\ r.polls = 0
            /\ r.slices = 0
            /\ r.slept = 0
            /\ r.pc \notin InSleep
            /\ r.exit # "task_stopped"

\* a Wait of d <= 0 completed although the flag was set when it slept
C10_Witness ==
    \E t \in DOMAIN th :
        /\ th[t].ctx = "wait"
        /\ th[t].seconds <= 0
        /\ th[t].flagAtCall
        /\ th[t].lastMsg = "effect"
        /\ th[t].pc = "for"

\* ------------------------------------------------------------------------
\* the image of the step a thread is at names a file that does not exist
MissingFile(r) ==
    /\ IsImageStep(r)
    /\ r.tasks[r.idx + 1].value \in PathLike \ ExistingFiles

\* C11: a click / hover step whose image is a path to a file that does not
\* exist fails with StepFailed at its first locate call, whatever the retry
\* policy: no screen search, no sleep, no second attempt, no advisory and no
\* input action are made for it.
C11_MissingFileFailsAtOnce ==
    /\ [](\A t \in DOMAIN th :
            LET r == th[t] IN
            /\ (MissingFile(r) /\ r.pc \in {"mc_check", "mc_locate"}) =>
                  /\ r.attempts = 0 /\ r.sleeps = 0 /\ r.elapsed = 0
                  /\ r.clicks = 0 /\ r.moves = 0
            /\ (MissingFile(r) /\ r.pc \in InSleep) => r.ctx # "retry"
            /\ (r.exit = "step_failed" /\ r.failMsg.reason = "missing file") =>
                  /\ MissingFile(r)
                  /\ r.attempts = 1 /\ r.searches = 0 /\ r.sleeps = 0
                  /\ r.elapsed = 0
                  /\ r.clicks = 0 /\ r.moves = 0 /\ r.point = NoPoint)
    /\ [][\A t \in DOMAIN th :
            (MissingFile(th[t]) /\ th[t].pc = "mc_locate" /\ th'[t].pc # "mc_locate")
                => /\ th'[t].exit = "step_failed"
                   /\ th'[t].failMsg.reason = "missing file"
                   /\ th'[t].warnings = th[t].warnings
                   /\ th'[t].pc = "finally"]_vars

\* a hover step with retry 3 on a missing file has failed and the run is over
C11_Witness ==
    \E t \in DOMAIN th :
        /\ th[t].exit = "step_failed"
        /\ th[t].failMsg.reason = "missing file"
        /\ th[t].reTry = 3
        /\ th[t].pc = "returned"

\* ------------------------------------------------------------------------
\* the kind of the step a thread is at, or was at when the run ended
KindAt(r) == IF r.idx < Len(r.tasks) THEN r.tasks[r.idx + 1].type ELSE 0

\* C12: after a match and the requested click, a second click is issued
\* exactly when the frontmost application was known before and after and
\* differs; it is the same call at the same point, made once, with no sleep
\* and no further locate call in between or after; a hover never clicks and
\* never reads the frontmost application.
C12_FocusCompensation ==
    /\ [](\A t \in DOMAIN th :
            LET r == th[t] IN
            /\ Len(r.clicked) = r.clicks
            /\ r.clicks <= 2
            /\ r.clicks >= 1 =>
                  /\ r.point # NoPoint
                  /\ r.clicked[1].at = r.point
                  /\ r.moves = 0
            /\ r.clicks = 2 <=>
                  (r.pre_app # "" /\ r.post_app # "" /\ r.pre_app # r.post_app)
            /\ r.clicks = 2 => r.clicked[2] = r.clicked[1]
            /\ r.moves >= 1 =>
                  /\ r.clicks = 0 /\ r.moves = 1
                  /\ r.pre_app = "" /\ r.post_app = "")
    /\ [][\A t \in DOMAIN th :
            LET r == th[t]
                n == th'[t]
            IN  /\ n.clicks > r.clicks =>
                      /\ r.pc = "mc_locate" /\ r.clicks = 0
                      /\ n.pc = "for" /\ n.attempts = r.attempts + 1
                      /\ n.sleeps = r.sleeps /\ n.slices = r.slices
                      /\ KindAt(r) \in {1, 2, 3}
                      /\ n.clicked[1].clicks = clickTimes(KindAt(r))
                      /\ n.clicked[1].button = lOrR(KindAt(r))
                /\ n.moves > r.moves => KindAt(r) = 8 /\ r.pc = "mc_locate"
                /\ (r.clicks >= 1 /\ n.clicks >= 1) =>
                      /\ n.clicked = r.clicked
                      /\ n.attempts = r.attempts]_vars

\* a double click that moved the focus from one application to another was
\* followed by its compensation
C12_Witness ==
    \E t \in DOMAIN th :
        /\ th[t].clicks = 2
        /\ th[t].clicked[2].clicks = 2
        /\ th[t].pre_app = "Finder"
        /\ th[t].post_app = "Safari"
        /\ th[t].attempts = 3

\* C13: retry bounds the searches, not the clicks: whatever the retry value,
\* the click is made on the first attempt that matches and mouseClick then
\* returns (no further attempt of that step), so one step makes one click,
\* two only with the focus compensation; a step that never matched, because
\* it failed or was stopped, has made no click.
C13_RetryNeverRepeatsClick ==
    /\ [](\A t \in DOMAIN th :
            LET r == th[t] IN
            /\ r.pc \in {"mc_check", "mc_locate"} => r.clicks = 0
            /\ (r.pc \in InSleep /\ r.ctx = "retry") => r.clicks = 0
            /\ (r.clicks > 1) => (r.clicks = 2 /\ r.pre_app # r.post_app)
            /\ (r.exit \in {"step_failed", "task_stopped", "error"} /\ IsImageStep(r))
                  => r.clicks = 0)
    /\ [][\A t \in DOMAIN th :
            LET r == th[t]
                n == th'[t]
            IN  (r.pc = "mc_locate" /\ n.pc # "mc_locate" /\ KindAt(r) \in {1, 2, 3}) =>
                    /\ n.clicks >= 1 <=> n.located # NoPoint
                    /\ n.clicks >= 1 => (n.pc = "for" /\ n.idx = r.idx + 1)]_vars

\* an unbounded click step matched on its second attempt and clicked once
C13_Witness ==
    \E t \in DOMAIN th :
        /\ th[t].reTry = -1
        /\ th[t].attempts = 2
        /\ th[t].clicks = 1
        /\ th[t].pc = "for"

\* the step a thread is about to execute raises a ValueError when its value is
\* parsed
BadValue(r) ==
    \/ KindAt(r) = 5 /\ float(r.tasks[r.idx + 1].value) = BadNumber
    \/ KindAt(r) = 6 /\ int(r.tasks[r.idx + 1].value) = BadNumber

\* C14: an exception of a step that is neither StepFailed nor TaskStopped (a
\* Wait or Scroll value that does not parse, a locate call that fails
\* otherwise, an input call that raises) is reported once as an error, not as
\* a failure or a stop; the step counter stays at that step, no step is
\* dispatched afterwards, and run_tasks goes through its cleanup and returns.
C14_UnexpectedFailureEndsRun ==
    /\ [](\A t \in DOMAIN th :
            LET r == th[t] IN
            /\ r.exit = "error" =>
                  /\ r.pc \in {"finally", "returned"}
                  /\ r.idx < Len(r.tasks)
                  /\ r.count["error"] = 1
                  /\ r.count["fail"] = 0 /\ r.count["stopped"] = 0
                  /\ r.failMsg = NoMsg
                  /\ r.lastMsg = IF r.pc = "finally" THEN "error" ELSE "terminal"
            /\ r.count["error"] > 0 => r.exit = "error")
    /\ [][\A t \in DOMAIN th :
            LET r == th[t]
                n == th'[t]
            IN  /\ (r.pc = "exec" /\ BadValue(r) /\ n.pc # "exec") =>
                      (n.exit = "error" /\ n.pc = "finally" /\ n.idx = r.idx)
                /\ (r.exit = "error" /\ r.pc = "finally" /\ n.pc # r.pc) =>
                      (n.pc = "returned" /\ n.exit = "error" /\ n.idx = r.idx
                       /\ ~is_running')
                /\ (r.exit # "error" /\ n.exit = "error") =>
                      (r.pc \in {"exec", "mc_locate"} /\ n.idx = r.idx)]_vars

\* the second step, a Wait whose value is not a number, ended a looping run
C14_Witness ==
    \E t \in DOMAIN th :
        /\ th[t].exit = "error"
        /\ th[t].pc = "returned"
        /\ th[t].loop_forever
        /\ th[t].idx = 1
        /\ th[t].tasks[2] = Step(5, "abc", 1)

\* C15: the step counter moves only forward by one, when the step it is at
\* has completed, and a step is dispatched only from the head of the loop, so
\* the steps of a pass run in list order one at a time; a run without
\* loop_forever ends after its one full pass; with loop_forever the counter
\* returns to the first step only out of the one 100 ms sleep that follows a
\* full pass.
C15_StepsInOrder ==
    /\ [](\A t \in DOMAIN th :
            LET r == th[t] IN
            /\ r.idx <= Len(r.tasks)
            /\ r.pc \in {"exec", "mc_check", "mc_locate"} => r.idx < Len(r.tasks)
            /\ ~r.loop_forever => r.pass <= 1
            /\ r.exit = "completed" =>
                  /\ ~r.loop_forever /\ r.idx = Len(r.tasks) /\ r.pass = 1
                  /\ r.count["fail"] = 0 /\ r.count["error"] = 0
                  /\ r.count["stopped"] = 0
            /\ (r.pc \in InSleep /\ r.ctx = "loop") =>
                  /\ r.loop_forever /\ r.idx = Len(r.tasks)
                  /\ r.seconds = LoopSleep)
    /\ [][\A t \in DOMAIN th :
            LET r == th[t]
                n == th'[t]
            IN  (r.pc \in InLoop /\ n.pc \notin {"idle", "launched"}) =>
                  /\ n.idx \in {r.idx, r.idx + 1, 0}
                  /\ n.tasks = r.tasks
                  /\ n.idx = r.idx + 1 =>
                        /\ n.lastMsg = "effect" /\ n.pc = "for"
                        /\ r.pc \in {"exec", "mc_locate", "sl_check"}
                  /\ (n.idx = 0 /\ r.idx # 0) =>
                        /\ r.loop_forever /\ r.idx = Len(r.tasks)
                        /\ r.pc = "sl_check" /\ r.ctx = "loop"
                        /\ r.slept = LoopSleep /\ r.remaining = 0
                        /\ n.pc = "for"
                        /\ (n.pass = r.pass + 1 \/ r.pass = MaxPasses)
                  /\ (n.pc = "exec" /\ r.pc # "exec") =>
                        /\ r.pc = "for" /\ n.idx = r.idx /\ n.lastMsg = "dispatch"
                        /\ r.lastMsg \in (IF r.idx > 0 THEN {"effect"}
                                          ELSE {"none", "loopwait"})
                  /\ (r.pc = "for" /\ n.pc # "for" /\ r.idx = Len(r.tasks)) =>
                        IF r.loop_forever
                        THEN n.pc = "sl_check" /\ n.ctx = "loop" /\ n.slept = 0
                        ELSE n.pc = "finally" /\ n.exit = "completed"]_vars

\* the second pass of a looping two-step run has dispatched its second step
C15_Witness ==
    \E t \in DOMAIN th :
        /\ th[t].loop_forever
        /\ th[t].pass = 2
        /\ th[t].idx = 1
        /\ th[t].pc = "exec"
        /\ Len(th[t].tasks) = 2

\* C16: no step of the run side (run_tasks and what it calls) changes
\* stop_requested; only stop() writes it.
C16_RunSideOnlyReadsFlag ==
    [][(\E t \in DOMAIN th : Worker(t)) => stop_requested' = stop_requested]_vars

\* C17: in one run the downgrade advisory reaches the callback at most once,
\* on the first locate call that was downgraded; later downgraded calls of
\* the run, in the same step or another, add nothing; the set of delivered
\* messages starts empty in every run, so a later run delivers it once more.
C17_AdvisoryOncePerRun ==
    /\ [](\A t \in DOMAIN th :
            LET r == th[t] IN
            /\ r.warned \subseteq {AdvisoryText}
            /\ r.warnings = Cardinality(r.warned)
            /\ r.advised <= runs)
    /\ [][\A t \in DOMAIN th :
            LET r == th[t]
                n == th'[t]
            IN  /\ (r.pc = "launched" /\ n.pc = "for") =>
                      (n.warned = {} /\ n.warnings = 0)
                /\ (r.pc = "mc_locate" /\ n.pc # "mc_locate" /\ n.searches = 2) =>
                      /\ AdvisoryText \in n.warned
                      /\ n.warnings = 1
                /\ n.warnings > r.warnings =>
                      /\ r.pc = "mc_locate" /\ n.searches = 2
                      /\ r.warned = {}]_vars

\* a second run delivered the advisory again, once, after two downgraded
\* locate calls; the first run had delivered it too
C17_Witness ==
    \E t \in DOMAIN th :
        /\ th[t].advised = 1
        /\ th[t].warnings = 1
        /\ th[t].attempts >= 2
        /\ th[t].searches = 2

\* C18: the locator keeps three outcomes apart: a second search, with its
\* advisory, follows only a first search refused for the unsupported
\* capability; a first search that raised image-not-found is a miss, with one
\* search and no advisory; any other failure of the first search ends the
\* step as an error.
C18_LocatorOutcomesApart ==
    [][\A t \in DOMAIN th :
            LET r == th[t]
                n == th'[t]
            IN  (r.pc = "mc_locate" /\ n.pc # "mc_locate") =>
                  /\ n.searches = 2 => n.firstExc = "NotImplementedError"
                  /\ n.warnings > r.warnings => n.firstExc = "NotImplementedError"
                  /\ n.firstExc = "ImageNotFoundException" =>
                        /\ n.searches = 1
                        /\ n.warnings = r.warnings
                        /\ n.clicks = 0 /\ n.moves = 0
                        /\ n.exit # "error"
                  /\ n.firstExc \notin {"none", "NotImplementedError",
                                         "ImageNotFoundException"} =>
                        /\ n.searches = 1
                        /\ n.exit = "error"]_vars

\* C19: normalization returns (x, y) unchanged when the platform is not
\* macOS, or a scale is absent, or both scales are within 0.01 of 1.0, a
\* difference of exactly 0.01 included; in every other case it returns
\* exactly (x / scale_x, y / scale_y).
SameFrac(a, b) == a.num * b.den = b.num * a.den
WithinTolerance(scale) == Abs(scale - ScaleOne) <= ScaleTol
C19_NormalizeIdentityWithinTolerance ==
    (call.fn = "normalize" /\ call.done) =>
        IF \/ ~env.macos
           \/ call.scale_x = 0 \/ call.scale_y = 0
           \/ WithinTolerance(call.scale_x) /\ WithinTolerance(call.scale_y)
        THEN call.out = <<Frac(call.x, 1), Frac(call.y, 1)>>
        ELSE /\ SameFrac(call.out[1], Frac(call.x * ScaleOne, call.scale_x))
             /\ SameFrac(call.out[2], Frac(call.y * ScaleOne, call.scale_y))

\* C20: saving a step list and loading it back loses nothing: whatever
\* well-formed list of records the file holds, with an empty value or with a
\* retry other than 1 on a kind that is not an image kind, the step list the
\* rows give after load_config is the list of the file.
C20_LoadGivesSavedList ==
    [][LoadConfig => RowsData(rows') = file.tasks]_vars

\* C21: the screenshot goes to screenshot_<timestamp>.png inside the value
\* when the value names an existing directory; otherwise to the value itself,
\* unchanged when it ends with .png, .jpg or .bmp and with .png appended in
\* every other case.
C21_ScreenshotPath ==
    (call.fn = "screenshot" /\ call.done) =>
        LET name == <<"screenshot_", call.timestamp, ".", "p", "n", "g">>
            n    == Len(call.out)
            ext  == IF n >= 4 THEN SubSeq(call.out, n - 3, n) ELSE <<>>
        IN  IF call.isdir
            THEN /\ n > Len(name)
                 /\ SubSeq(call.out, n - Len(name) + 1, n) = name
                 /\ call.out[n - Len(name)] = "/"
                 /\ SubSeq(call.out, 1, n - Len(name)) \in
                        {call.path, call.path \o <<"/">>}
            ELSE IF \E k \in 1..Len(call.path) :
                        /\ k = Len(call.path) - 3
                        /\ SubSeq(call.path, k, k + 3) \in Accepted
            THEN call.out = call.path
            ELSE /\ n = Len(call.path) + 4
                 /\ SubSeq(call.out, 1, n - 4) = call.path
                 /\ ext = Png

\* "out", which names no directory, became "out.png"
C21_Witness ==
    /\ call.fn = "screenshot"
    /\ call.done
    /\ ~call.isdir
    /\ call.path = <<"o", "u", "t">>
    /\ call.out = <<"o", "u", "t", ".", "p", "n", "g">>

\* C22: a run that does not loop ends, stop request or none: once its thread
\* is launched, run_tasks reaches its terminal message and returns, whatever
\* the kinds, the wait values and the retry modes of its steps; it sends the
\* terminal message once.
C22_RunTerminates ==
    /\ (th[1].pc = "launched" /\ ~th[1].loop_forever)
          ~> (th[1].pc = "returned" /\ th[1].lastMsg = "terminal")
    /\ [](th[1].pc = "returned" => th[1].count["terminal"] = 1)
    /\ []((th[1].pc \in InLoop /\ ~th[1].loop_forever) => th[1].pass = 1)

\* a run of two steps that was never stopped has returned after its unbounded
\* search ran into the timeout
C22_Witness ==
    /\ th[1].pc = "returned"
    /\ ~th[1].loop_forever
    /\ ~th[1].stopped
    /\ Len(th[1].tasks) = 2
    /\ th[1].idx = 1
    /\ th[1].reTry = -1
    /\ th[1].failMsg.reason = "timeout"
    /\ th[1].lastMsg = "terminal"

\* C23: while a stop request made during the run is in effect (the flag is
\* set and the thread is past the line that clears it), the flag stays set,
\* the loop dispatches no step, no locate attempt begins and no sleep slice
\* begins: the step already dispatched, the search or the slice in flight may
\* finish, and the next stop check ends the run; at the end of a pass that is
\* the first poll of the sleep between two passes.
C23_NothingBeginsAfterStop ==
    [][\A t \in DOMAIN th :
            LET r == th[t]
                n == th'[t]
            IN  (stop_requested /\ r.pc \in InLoop /\ n # r) =>
                  /\ n.pc \in InLoop => stop_requested'
                  /\ r.pc = "for" =>
                        \/ n.pc = "finally" /\ n.exit \in {"stop_check", "completed"}
                        \/ /\ r.idx = Len(r.tasks) /\ r.loop_forever
                           /\ n.pc = "sl_check" /\ n.ctx = "loop"
                  /\ r.pc = "mc_check" =>
                        (n.pc = "finally" /\ n.exit = "task_stopped")
                  /\ r.pc = "sl_check" =>
                        (n.pc = "finally" /\ n.exit = "task_stopped")
                  /\ n.pc # "exec"
                  /\ n.pc = "mc_locate" => r.pc = "mc_locate"
                  /\ n.pc = "sl_sleep" => r.pc = "sl_sleep"
                  /\ n.attempts <= r.attempts + (IF r.pc = "mc_locate" THEN 1 ELSE 0)
                  /\ n.slices <= r.slices + (IF r.pc = "sl_sleep" THEN 1 ELSE 0)]_vars

\* the stop came after a Wait step had passed its stop check: the step was
\* still executed, and its sleep ended at its first poll without a slice
C23_Witness ==
    \E t \in DOMAIN th :
        /\ th[t].pc = "finally"
        /\ th[t].exit = "task_stopped"
        /\ th[t].ctx = "wait"
        /\ th[t].flagAtCall
        /\ th[t].polls = 1
        /\ th[t].slices = 0
        /\ stop_requested

\* C24: mouseClick and mouseMove treat a retry value of 0, any value below
\* -1 and any value that int() refuses as retry = 1; only the value -1 gives
\* the unbounded mode, and only a value N >= 1 gives N attempts.
IsNumber(v) == v.ty \in {"int", "bool"} \/ (v.ty = "float" /\ v.s = "")
\* the number in thousandths
Thousandths(v) == IF v.ty = "float" THEN v.n ELSE v.n * ScaleOne
Refused(v) == int_of(v) = BadNumber
C24_RetryNormalization ==
    (call.fn \in {"mouseClick", "mouseMove"} /\ call.done) =>
        LET v == call.reTry IN
        /\ (IsNumber(v) /\ Thousandths(v) = 0) => call.out = 1
        /\ (IsNumber(v) /\ Thousandths(v) < -ScaleOne) => call.out = 1
        /\ Refused(v) => call.out = 1
        /\ call.out = -1 =>
              \/ IsNumber(v) /\ Thousandths(v) = -ScaleOne
              \/ v.ty = "str" /\ int_of(v) = -1
        /\ call.out \notin {1, -1} =>
              /\ call.out >= 1
              /\ int_of(v) = call.out

\* C25: a stop() made while no run is in progress sets the flag and touches
\* nothing else, and it does not cancel the next run: run_tasks clears the
\* flag before its first step, so a run that no stop() was made in since
\* its thread was launched finds the flag down at every check and never ends
\* as stopped.
C25_IdleStopDoesNotCancel ==
    /\ [][\A t \in DOMAIN th :
            LET r == th[t]
                n == th'[t]
            IN  /\ (r.pc \in {"idle", "returned"} /\ stop_requested' # stop_requested) =>
                      (stop_requested' /\ n = r)
                /\ (r.pc = "launched" /\ n.pc # "launched") =>
                      /\ n.pc = "for" /\ n.idx = 0
                      /\ ~stop_requested'
                      /\ n.flagAtEnter = stop_requested
                /\ (r.pc = "for" /\ ~r.stopped /\ r.idx < Len(r.tasks) /\ n.pc # "for") =>
                      n.pc = "exec"]_vars
    /\ [](\A t \in DOMAIN th :
            LET r == th[t] IN
            /\ (r.pc \in InLoop /\ ~r.stopped) => ~stop_requested
            /\ ~r.stopped =>
                  /\ r.exit \notin {"stop_check", "task_stopped"}
                  /\ r.count["stopped"] = 0)

\* the flag was still set from a stop() made before the thread was launched;
\* the run of two steps was carried out to its end
C25_Witness ==
    \E t \in DOMAIN th :
        /\ th[t].pc = "returned"
        /\ th[t].flagAtEnter
        /\ ~th[t].stopped
        /\ th[t].exit = "completed"
        /\ Len(th[t].tasks) = 2
        /\ th[t].idx = 2
        /\ th[t].count["stopped"] = 0

====
